---- MODULE Spec2Model ----
(***************************************************************************)
(* Azure cost report generator (main2.py): the range fetch with its        *)
(* rate-limit retry, the single-day fetch, the response parser, the cost   *)
(* categorizer, the day-over-day percentage tables, the main loop over the *)
(* four subscriptions and the Word document.                               *)
(*                                                                         *)
(* Values.  A Python string that the program inspects is a tuple of        *)
(* one-character strings, so that lower() and the substring test `in` are  *)
(* computed.  A cell of a response row is [num |-> n] or [str |-> chars].  *)
(* A number of a response (a cost, a date key) is an integer: a Python int *)
(* or a float of integral value, on which the program's additions and      *)
(* subtractions are exact.  The quotient and the product of the percentage *)
(* are binary64 floats, rounded as IEEE 754 rounds them.  A Python dict    *)
(* with string keys is a TLA+ function on strings.                         *)
(***************************************************************************)
EXTENDS Integers, Sequences, FiniteSets, TLC

VARIABLES
    \* --- the run (__main__) -------------------------------------------
    pc,          \* position of the main program
    idx,         \* loop index of `for idx, sub_name in enumerate(...)`
    num_days,    \* the validated input
    retries,     \* depth of the recursion of the current get_cost_data_range call
    timeline,    \* the requests, by subscription, and the sleeps of the main loop
    outcome,     \* per subscription: how its two range fetches ended
    console,     \* per subscription: the tables printed (or nothing)
    all_data,    \* the dict handed to create_word_document
    doc,         \* the saved document
    \* --- process_cost_data alone ---------------------------------------
    raw_data,    \* the rows of one date
    costs,       \* the returned breakdown
    \* --- generate_data_for_subscription / generate_table_for_subscription
    rp_sub, rp_days, rp_resp, rp_data, rp_console,
    \* --- parse_range_response + process_cost_data under a column order -
    ps_rows, ps_order, ps_out,
    \* --- get_cost_data_range alone -------------------------------------
    rg_log, rg_ret,
    \* --- get_cost_data alone -------------------------------------------
    gc_retry_count, gc_log, gc_ret

runVars == <<pc, idx, num_days, retries, timeline, outcome, console, all_data, doc>>
catVars == <<raw_data, costs>>
rpVars == <<rp_sub, rp_days, rp_resp, rp_data, rp_console>>
psVars == <<ps_rows, ps_order, ps_out>>
rgVars == <<rg_log, rg_ret>>
gcVars == <<gc_retry_count, gc_log, gc_ret>>
vars == <<runVars, catVars, rpVars, psVars, rgVars, gcVars>>

-----------------------------------------------------------------------------
(* Bounds of the model *)

MaxRows == 3
MaxDays == 3
MaxRateLimits == 2
MaxRunDays == 2

-----------------------------------------------------------------------------
(* Python values *)

\* None
None == [none |-> TRUE]

\* a value not computed yet (a position before the assignment)
Unset == [unset |-> TRUE]

Num(n) == [num |-> n]
Str(s) == [str |-> s]
IsNum(c) == DOMAIN c = {"num"}
IsStr(c) == DOMAIN c = {"str"}

\* str.lower() on the letters
LowerPairs ==
    {<<"A", "a">>, <<"B", "b">>, <<"C", "c">>, <<"D", "d">>, <<"E", "e">>, <<"F", "f">>,
     <<"G", "g">>, <<"H", "h">>, <<"I", "i">>, <<"J", "j">>, <<"K", "k">>, <<"L", "l">>,
     <<"M", "m">>, <<"N", "n">>, <<"O", "o">>, <<"P", "p">>, <<"Q", "q">>, <<"R", "r">>,
     <<"S", "s">>, <<"T", "t">>, <<"U", "u">>, <<"V", "v">>, <<"W", "w">>, <<"X", "x">>,
     <<"Y", "y">>, <<"Z", "z">>}

LowerMap == [ch \in {p[1] : p \in LowerPairs} |-> (CHOOSE p \in LowerPairs : p[1] = ch)[2]]

LowerChar(ch) == IF ch \in DOMAIN LowerMap THEN LowerMap[ch] ELSE ch

Lower(s) == [i \in 1..Len(s) |-> LowerChar(s[i])]

\* `needle in hay` on strings
Contains(needle, hay) ==
    \E i \in 0..(Len(hay) - Len(needle)) : SubSeq(hay, i + 1, i + Len(needle)) = needle

-----------------------------------------------------------------------------
(* process_cost_data *)

NeedleDatabricksWorkspaces ==
    <<"d", "a", "t", "a", "b", "r", "i", "c", "k", "s", "/", "w", "o", "r", "k", "s", "p", "a", "c", "e", "s">>
NeedleDatabricksWorkspace ==
    <<"d", "a", "t", "a", "b", "r", "i", "c", "k", "s", "/", "w", "o", "r", "k", "s", "p", "a", "c", "e">>
NeedleComputeVMs ==
    <<"c", "o", "m", "p", "u", "t", "e", "/", "v", "i", "r", "t", "u", "a", "l", "m", "a", "c", "h", "i", "n", "e", "s">>
NeedleMicrosoftComputeVMs ==
    <<"m", "i", "c", "r", "o", "s", "o", "f", "t", ".", "c", "o", "m", "p", "u", "t", "e", "/", "v", "i", "r", "t", "u", "a", "l", "m", "a", "c", "h", "i", "n", "e", "s">>
NeedleStorageAccounts ==
    <<"s", "t", "o", "r", "a", "g", "e", "/", "s", "t", "o", "r", "a", "g", "e", "a", "c", "c", "o", "u", "n", "t", "s">>
NeedleMicrosoftStorageAccounts ==
    <<"m", "i", "c", "r", "o", "s", "o", "f", "t", ".", "s", "t", "o", "r", "a", "g", "e", "/", "s", "t", "o", "r", "a", "g", "e", "a", "c", "c", "o", "u", "n", "t", "s">>

AllCategories == <<"Databricks", "Virtual Machine", "Storage", "Others">>

CategorySet == {AllCategories[i] : i \in 1..Len(AllCategories)}

\* costs = {'Databricks': 0, 'Virtual Machine': 0, 'Storage': 0, 'Others': 0}
ZeroCosts == [c \in CategorySet |-> 0]

\* resource_type = row[2].lower() if len(row) > 2 else ''
ResourceTypeOf(row) == IF Len(row) > 2 THEN Lower(row[3].str) ELSE <<>>

\* the if / elif / elif / else chain: the first branch whose test holds
CategoryOf(resource_type) ==
    IF Contains(NeedleDatabricksWorkspaces, resource_type)
          \/ Contains(NeedleDatabricksWorkspace, resource_type)
    THEN "Databricks"
    ELSE IF Contains(NeedleComputeVMs, resource_type)
          \/ Contains(NeedleMicrosoftComputeVMs, resource_type)
    THEN "Virtual Machine"
    ELSE IF Contains(NeedleStorageAccounts, resource_type)
          \/ Contains(NeedleMicrosoftStorageAccounts, resource_type)
    THEN "Storage"
    ELSE "Others"

\* The exception one loop iteration raises, "none" when it raises none:
\*   cost = row[0]                      IndexError on an empty row
\*   row[2].lower()                     AttributeError when row[2] is a number
\*   costs[...] += cost                 TypeError when row[0] is a string
RowRaises(row) ==
    IF Len(row) = 0 THEN "IndexError"
    ELSE IF Len(row) > 2 /\ ~IsStr(row[3]) THEN "AttributeError"
    ELSE IF ~IsNum(row[1]) THEN "TypeError"
    ELSE "none"

\* the exception process_cost_data(raw_data) ends with: that of the first raising row
ProcessRaises(rows) ==
    IF \A i \in 1..Len(rows) : RowRaises(rows[i]) = "none"
    THEN "none"
    ELSE RowRaises(rows[CHOOSE i \in 1..Len(rows) :
                           /\ RowRaises(rows[i]) # "none"
                           /\ \A j \in 1..(i - 1) : RowRaises(rows[j]) = "none"])

\* one iteration of `for row in raw_data` (a row that raises nothing)
AddRowDroppingUnmatched(acc, row) ==
    LET category == CategoryOf(ResourceTypeOf(row))
    IN  IF category = "Others" THEN acc
        ELSE [acc EXCEPT ![category] = @ + row[1].num]

AddRow(acc, row) ==
    [acc EXCEPT ![CategoryOf(ResourceTypeOf(row))] = @ + row[1].num]

RECURSIVE FoldRows(_, _)
FoldRows(acc, rows) ==
    IF rows = <<>> THEN acc
    ELSE FoldRows(AddRow(acc, Head(rows)), Tail(rows))

\* process_cost_data(raw_data), when it raises nothing
ProcessCostData(rows) == FoldRows(ZeroCosts, rows)

-----------------------------------------------------------------------------
(* Dates: datetime.now(), timedelta(days=k), strftime *)

\* datetime.now(): 3 October 2024, so that a window reaches back into September
Now == [year |-> 2024, yday |-> 277]

\* days of 2024 before each month
DaysBeforeMonth == <<0, 31, 60, 91, 121, 152, 182, 213, 244, 274, 305, 335, 366>>

\* datetime.now() - timedelta(days=k)
DaysAgo(k) == [year |-> Now.year, yday |-> Now.yday - k]

MonthOf(d) == CHOOSE m \in 1..12 : DaysBeforeMonth[m] < d.yday /\ d.yday <= DaysBeforeMonth[m + 1]
DayOf(d) == d.yday - DaysBeforeMonth[MonthOf(d)]

Digits == <<"0", "1", "2", "3", "4", "5", "6", "7", "8", "9">>

TwoDigits(n) == <<Digits[(n \div 10) + 1], Digits[(n % 10) + 1]>>

RECURSIVE DecimalChars(_)
DecimalChars(n) ==
    IF n < 10 THEN <<Digits[n + 1]>>
    ELSE Append(DecimalChars(n \div 10), Digits[(n % 10) + 1])

DigitValue(ch) == (CHOOSE i \in 1..10 : Digits[i] = ch) - 1

\* int(s) of a string of decimal digits
RECURSIVE ParseInt(_)
ParseInt(s) ==
    IF Len(s) = 1 THEN DigitValue(s[1])
    ELSE ParseInt(SubSeq(s, 1, Len(s) - 1)) * 10 + DigitValue(s[Len(s)])

RECURSIVE Pow2(_)
Pow2(n) == IF n = 0 THEN 1 ELSE 2 * Pow2(n - 1)

\* int(date.strftime('%Y%m%d'))
DateKey(d) == d.year * 10000 + MonthOf(d) * 100 + DayOf(d)

\* date.strftime('%m/%d')
DateStr(d) == TwoDigits(MonthOf(d)) \o <<"/">> \o TwoDigits(DayOf(d))

-----------------------------------------------------------------------------
(* Inputs of process_cost_data: resource types as the API names them, one   *)
(* that matches two rules, and rows without a resource-type field.         *)

RtDatabricks ==
    <<"M", "i", "c", "r", "o", "s", "o", "f", "t", ".", "D", "a", "t", "a", "b", "r", "i", "c", "k", "s", "/", "w", "o", "r", "k", "s", "p", "a", "c", "e", "s">>
RtVM ==
    <<"m", "i", "c", "r", "o", "s", "o", "f", "t", ".", "c", "o", "m", "p", "u", "t", "e", "/", "v", "i", "r", "t", "u", "a", "l", "m", "a", "c", "h", "i", "n", "e", "s">>
RtStorage ==
    <<"M", "i", "c", "r", "o", "s", "o", "f", "t", ".", "S", "t", "o", "r", "a", "g", "e", "/", "s", "t", "o", "r", "a", "g", "e", "A", "c", "c", "o", "u", "n", "t", "s">>
RtSql ==
    <<"m", "i", "c", "r", "o", "s", "o", "f", "t", ".", "s", "q", "l", "/", "s", "e", "r", "v", "e", "r", "s">>
RtBoth ==
    <<"c", "o", "m", "p", "u", "t", "e", "/", "v", "i", "r", "t", "u", "a", "l", "M", "a", "c", "h", "i", "n", "e", "s", "+", "s", "t", "o", "r", "a", "g", "e", "/", "s", "t", "o", "r", "a", "g", "e", "A", "c", "c", "o", "u", "n", "t", "s">>

SampleResourceTypes == {RtDatabricks, RtVM, RtStorage, RtSql, RtBoth}

SampleCosts == {-250, 0, 1000}

OneDate == DateKey(DaysAgo(1))

\* rows of one date: <<cost, date, resource type>> and <<cost, date>>
CatRowPool ==
    {<<Num(c), Num(OneDate), Str(rt)>> : c \in SampleCosts, rt \in SampleResourceTypes}
        \cup {<<Num(c), Num(OneDate)>> : c \in SampleCosts}

RECURSIVE SeqsUpTo(_, _)
SeqsUpTo(S, n) ==
    IF n = 0 THEN {<<>>}
    ELSE LET shorter == SeqsUpTo(S, n - 1)
         IN  shorter \cup {Append(s, x) : s \in {t \in shorter : Len(t) = n - 1}, x \in S}

RECURSIVE SumCosts(_)
SumCosts(rows) == IF rows = <<>> THEN 0 ELSE Head(rows)[1].num + SumCosts(Tail(rows))

RunIdle ==
    /\ pc = "off" /\ idx = 0 /\ num_days = 0 /\ retries = 0 /\ timeline = <<>>
    /\ outcome = <<>> /\ console = <<>> /\ all_data = <<>> /\ doc = None
CatIdle == raw_data = <<>> /\ costs = Unset
RpIdle == rp_sub = "" /\ rp_days = 0 /\ rp_resp = None /\ rp_data = Unset /\ rp_console = Unset
PsIdle == ps_rows = <<>> /\ ps_order = <<>> /\ ps_out = Unset
RgIdle == rg_log = <<>> /\ rg_ret = Unset
GcIdle == gc_retry_count = 0 /\ gc_log = <<>> /\ gc_ret = Unset

CatInit ==
    /\ raw_data \in SeqsUpTo(CatRowPool, MaxRows)
    /\ costs = Unset
    /\ RunIdle /\ RpIdle /\ PsIdle /\ RgIdle /\ GcIdle

\* a call of process_cost_data(raw_data)
CallProcessCostData ==
    /\ costs = Unset
    /\ costs' = IF ProcessRaises(raw_data) = "none"
                THEN ProcessCostData(raw_data)
                ELSE [raised |-> ProcessRaises(raw_data)]
    /\ UNCHANGED <<raw_data, runVars, rpVars, psVars, rgVars, gcVars>>

CatNext == CallProcessCostData

SpecCat == CatInit /\ [][CatNext]_vars

-----------------------------------------------------------------------------
(* C4: process_cost_data adds every row's cost to exactly one of the four   *)
(* categories: the four totals are all present, they sum to the sum of the  *)
(* input costs, and a category that no row hits has total 0.                *)

\* C4: the four categories are all present, their totals sum to the sum of the input
\* costs, and a category no row hits is 0.
C4_Conservation ==
    costs # Unset =>
        /\ DOMAIN costs = {"Databricks", "Virtual Machine", "Storage", "Others"}
        /\ costs["Databricks"] + costs["Virtual Machine"] + costs["Storage"] + costs["Others"]
              = SumCosts(raw_data)
        /\ \A c \in DOMAIN costs :
              (\A i \in 1..Len(raw_data) : CategoryOf(ResourceTypeOf(raw_data[i])) # c)
                  => costs[c] = 0

\* a row without a resource type, a row matching two rules and a row of a single rule,
\* all with nonzero costs, have been categorized
C4_Witness ==
    /\ costs # Unset
    /\ Len(raw_data) = 3
    /\ \E i \in 1..3 : Len(raw_data[i]) = 2 /\ raw_data[i][1].num # 0
    /\ \E i \in 1..3 : Len(raw_data[i]) = 3 /\ raw_data[i][3].str = RtBoth /\ raw_data[i][1].num # 0
    /\ \E i \in 1..3 : Len(raw_data[i]) = 3 /\ raw_data[i][3].str = RtDatabricks /\ raw_data[i][1].num # 0
    /\ costs["Virtual Machine"] # 0 /\ costs["Storage"] = 0

-----------------------------------------------------------------------------
(* Truthiness, responses and parse_range_response *)

\* the tuple (None, None) of `return None, None`
NoneNone == [tuple |-> <<None, None>>]

\* {}
EmptyDict == [k \in {} |-> 0]

\* bool(v): None and the empty dict are false, a non-empty tuple or dict is true
Truthy(v) ==
    /\ v # None
    /\ DOMAIN v # {}
    /\ (DOMAIN v = {"tuple"} => Len(v.tuple) > 0)

\* next((i for i, col in enumerate(columns) if col['name'] == name), default)
IndexOfName(columns, name, default) ==
    IF \E i \in 1..Len(columns) : columns[i].name = name
    THEN (CHOOSE i \in 1..Len(columns) :
              /\ columns[i].name = name
              /\ \A j \in 1..(i - 1) : columns[j].name # name) - 1
    ELSE default

\* response_data.get('columns', [])
ColumnsOf(response_data) ==
    IF "columns" \in DOMAIN response_data THEN response_data.columns ELSE <<>>

CostIdx(response_data) == IndexOfName(ColumnsOf(response_data), "Cost", 0)
DateIdx(response_data) == IndexOfName(ColumnsOf(response_data), "UsageDate", 1)
ResourceIdx(response_data) == IndexOfName(ColumnsOf(response_data), "ResourceType", 2)

\* `if not response_data or 'rows' not in response_data: return {}`
ParseReturnsEmpty(response_data) ==
    ~Truthy(response_data) \/ "rows" \notin DOMAIN response_data

\* row[date_idx] raises IndexError on a row too short
ParseRaises(response_data) ==
    IF ParseReturnsEmpty(response_data) THEN "none"
    ELSE IF \E i \in 1..Len(response_data.rows) :
                Len(response_data.rows[i]) < DateIdx(response_data) + 1
    THEN "IndexError"
    ELSE "none"

RowsOfDate(rows, date_idx, date) == SelectSeq(rows, LAMBDA row : row[date_idx + 1] = date)

\* parse_range_response(response_data, num_days): date cell -> the rows of that date,
\* in response order
ParseRangeResponse(response_data) ==
    IF ParseReturnsEmpty(response_data) THEN EmptyDict
    ELSE LET rows == response_data.rows
             date_idx == DateIdx(response_data)
         IN  [date \in {rows[i][date_idx + 1] : i \in 1..Len(rows)}
                 |-> RowsOfDate(rows, date_idx, date)]

\* daily_data.get(date_key, [])
DailyGet(daily_data, date_key) ==
    IF Num(date_key) \in DOMAIN daily_data THEN daily_data[Num(date_key)] ELSE <<>>

-----------------------------------------------------------------------------
(* Floats.  A float is [neg, man, exp]: man is the significand as a tuple  *)
(* of bits, most significant first and starting with 1 (<<>> for a zero),  *)
(* exp the weight of its last bit; the value is (-1)^neg * man * 2^exp.    *)

Abs(n) == IF n < 0 THEN -n ELSE n

\* the bits of a binary64 significand
Precision == 53

Float(neg, man, exp) == [neg |-> neg, man |-> man, exp |-> exp]

\* the binary digits of n >= 0, <<>> for 0
RECURSIVE BitsOf(_)
BitsOf(n) == IF n = 0 THEN <<>> ELSE Append(BitsOf(n \div 2), n % 2)

\* the number with the binary digits bits[i..Len(bits)] appended to those of acc
RECURSIVE IntOfBitsFrom(_, _, _)
IntOfBitsFrom(bits, i, acc) ==
    IF i > Len(bits) THEN acc
    ELSE CHOOSE n \in {IntOfBitsFrom(s.bits, s.i, s.acc) :
                          s \in {[bits |-> bits, i |-> i + 1, acc |-> 2 * acc + bits[i]]}} : TRUE

IntOfBits(bits) == IntOfBitsFrom(bits, 1, 0)

\* float(n) of an int
FloatOfInt(n) == Float(n < 0, BitsOf(Abs(n)), 0)

Zeros(n) == [i \in 1..n |-> 0]

\* the number of 1 bits that end bits (not all of them 1)
TrailingOnes(bits) ==
    CHOOSE t \in 0..(Len(bits) - 1) :
        /\ bits[Len(bits) - t] = 0
        /\ \A i \in (Len(bits) - t + 1)..Len(bits) : bits[i] = 1

\* bits + 1, for bits that are not all 1
Increment(bits) ==
    CHOOSE r \in {SubSeq(bits, 1, Len(bits) - t - 1) \o <<1>> \o Zeros(t) :
                     t \in {TrailingOnes(bits)}} : TRUE

\* Round to nearest, ties to even: the exact value bits * 2^exp, plus something
\* positive below the last bit when `sticky`, as a float of at most Precision bits
RoundNearestEven(neg, bits, exp, sticky) ==
    IF Len(bits) <= Precision THEN Float(neg, bits, exp)
    ELSE LET dropped == Len(bits) - Precision
             above == sticky \/ \E i \in (Precision + 2)..Len(bits) : bits[i] = 1
             up == bits[Precision + 1] = 1 /\ (above \/ bits[Precision] = 1)
         IN  IF ~up THEN Float(neg, SubSeq(bits, 1, Precision), exp + dropped)
             ELSE IF \A i \in 1..Precision : bits[i] = 1
             THEN Float(neg, <<1>> \o Zeros(Precision - 1), exp + dropped + 1)
             ELSE Float(neg, Increment(SubSeq(bits, 1, Precision)), exp + dropped)

\* long division: acc followed by the next `count` bits of r / d (0 <= r < d), and
\* the remainder left
RECURSIVE QuotientBits(_, _, _, _)
QuotientBits(r, d, count, acc) ==
    IF count = 0 THEN [bits |-> acc, rem |-> r]
    ELSE CHOOSE q \in {QuotientBits(s.r, s.d, s.count, s.acc) :
                          s \in {[r |-> IF 2 * r >= d THEN 2 * r - d ELSE 2 * r,
                                  d |-> d,
                                  count |-> count - 1,
                                  acc |-> Append(acc, IF 2 * r >= d THEN 1 ELSE 0)]}} : TRUE

\* the k with 2^k <= a / b < 2^(k+1), for a, b > 0
RECURSIVE BinaryExponent(_, _)
BinaryExponent(a, b) ==
    IF a < b THEN BinaryExponent(2 * a, b) - 1
    ELSE IF 2 * b <= a THEN BinaryExponent(a, 2 * b) + 1
    ELSE 0

\* a / b for a, b > 0: the leading 1 and the next Precision bits of the quotient, the
\* weight of the last of them, and whether a remainder is left
Quotient(a, b) ==
    CHOOSE q \in {[k |-> k,
                   q |-> QuotientBits((IF k < 0 THEN a * Pow2(-k) ELSE a)
                                          - (IF k > 0 THEN b * Pow2(k) ELSE b),
                                      IF k > 0 THEN b * Pow2(k) ELSE b,
                                      Precision, <<1>>)] :
                     k \in {BinaryExponent(a, b)}} : TRUE

\* n / d (d # 0) of two numbers of integral value: the quotient correctly rounded;
\* 0 / d has the sign of d
TrueDivide(n, d) ==
    IF n = 0 THEN Float(d < 0, <<>>, 0)
    ELSE CHOOSE x \in {RoundNearestEven((n < 0) # (d < 0), r.q.bits, r.k - Precision,
                                        r.q.rem # 0) :
                          r \in {Quotient(Abs(n), Abs(d))}} : TRUE

\* (bits[1..i] * m + carry) as bits, followed by acc
RECURSIVE TimesSmall(_, _, _, _, _)
TimesSmall(bits, i, m, carry, acc) ==
    IF i = 0 THEN BitsOf(carry) \o acc
    ELSE CHOOSE p \in {TimesSmall(s.bits, s.i, s.m, s.carry, s.acc) :
                          s \in {[bits |-> bits, i |-> i - 1, m |-> m,
                                  carry |-> (bits[i] * m + carry) \div 2,
                                  acc |-> <<(bits[i] * m + carry) % 2>> \o acc]}} : TRUE

\* x * m for a float x and an int m > 0, correctly rounded
Times(x, m) ==
    CHOOSE y \in UNION {{RoundNearestEven(v.neg, bits, v.exp, FALSE) :
                            bits \in {TimesSmall(v.man, Len(v.man), m, 0, <<>>)}} :
                        v \in {x}} : TRUE

-----------------------------------------------------------------------------
(* Formatting *)

\* f"${cost:.2f}" of a cost of integral value
FormatCost(cost) ==
    <<"$">> \o (IF cost < 0 THEN <<"-">> ELSE <<>>)
            \o DecimalChars(Abs(cost)) \o <<".", "0", "0">>

\* the integer nearest to bits * 2^(-f), a tie to the even one
RoundToInteger(bits, f) ==
    LET len == Len(bits)
        whole == IF f <= 0 THEN IntOfBits(bits) * Pow2(-f)
                 ELSE IF f >= len THEN 0
                 ELSE IntOfBits(SubSeq(bits, 1, len - f))
        half == f >= 1 /\ f <= len /\ bits[len - f + 1] = 1
        above == \E i \in (len - f + 2)..len : bits[i] = 1
    IN  IF half /\ (above \/ whole % 2 = 1) THEN whole + 1 ELSE whole

\* |x| * 100 rounded to an integer, a tie to the even one, x taken exactly: the
\* digits the format spec .2f prints (for percentages below 2^31 / 100, the integers TLC
\* computes with)
Hundredths(x) ==
    CHOOSE h \in UNION {{RoundToInteger(scaled, -v.exp) :
                            scaled \in {TimesSmall(v.man, Len(v.man), 100, 0, <<>>)}} :
                        v \in {x}} : TRUE

\* f"{percent_change:+.2f}%": the sign is that of the float, also of a zero
FormatPercent(x) ==
    CHOOSE s \in {(IF x.neg THEN <<"-">> ELSE <<"+">>)
                     \o DecimalChars(h \div 100) \o <<".">> \o TwoDigits(h % 100)
                     \o <<"%">> :
                  h \in {Hundredths(x)}} : TRUE

\* the if prev_cost == 0 / else of the percentage tables
PercentChangeAsTrueRatio(prev_cost, curr_cost) ==
    IF prev_cost = 0
    THEN FloatOfInt(0)
    ELSE Times(TrueDivide(curr_cost - prev_cost, prev_cost), 100)

PercentChange(prev_cost, curr_cost) ==
    IF prev_cost = 0
    THEN IF curr_cost = 0 THEN FloatOfInt(0) ELSE FloatOfInt(100)
    ELSE Times(TrueDivide(curr_cost - prev_cost, prev_cost), 100)

-----------------------------------------------------------------------------
(* generate_data_for_subscription *)

\* str.lower() of the names the program passes
SubLower(name) ==
    CASE name = "MAIN" -> "main"
      [] name = "PROD" -> "prod"
      [] name = "DEV" -> "dev"
      [] name = "TEST" -> "test"
      [] OTHER -> name

\* the k-th (1-based) date of `for i in range(num_days - 1, -1, -1)`:
\* datetime.now() - timedelta(days=i+1) with i = num_days - k
WindowDate(n, k) == DaysAgo((n - k) + 1)

\* all_costs of the "Process each day" loop
AllCosts(response_data, n) ==
    LET daily_data == ParseRangeResponse(response_data)
    IN  [k \in 1..n |-> ProcessCostData(DailyGet(daily_data, DateKey(WindowDate(n, k))))]

\* the first exception the parse and the per-day loop raise
DaysRaise(response_data, n) ==
    IF ParseRaises(response_data) # "none" THEN ParseRaises(response_data)
    ELSE LET daily_data == ParseRangeResponse(response_data)
             raises(k) == ProcessRaises(DailyGet(daily_data, DateKey(WindowDate(n, k))))
         IN  IF \A k \in 1..n : raises(k) = "none" THEN "none"
             ELSE raises(CHOOSE k \in 1..n :
                             raises(k) # "none" /\ \A j \in 1..(k - 1) : raises(j) = "none")

DateStrings(n) == [k \in 1..n |-> DateStr(WindowDate(n, k))]

\* has_databricks = any(costs['Databricks'] > 0 for costs in all_costs)
HasDatabricks(all_costs) ==
    \E k \in 1..Len(all_costs) : all_costs[k]["Databricks"] > 0

\* "Determine which categories have data (skip Databricks for main)"
CategoriesFor(subscription_name, all_costs) ==
    IF SubLower(subscription_name) = "main" /\ ~HasDatabricks(all_costs)
    THEN <<"Virtual Machine", "Storage", "Others">>
    ELSE AllCategories

\* "Build cost table"
CostTable(all_costs, date_strings, categories) ==
    [k \in 1..Len(all_costs) |->
        <<date_strings[k]>>
            \o [j \in 1..Len(categories) |-> FormatCost(all_costs[k][categories[j]])]]

\* "Build percentage change table": `for i in range(1, len(all_costs))`, row i compares
\* all_costs[i-1] with all_costs[i] (0-based), labelled date_strings[i]
PercentTable(all_costs, date_strings, categories) ==
    [k \in 1..(Len(all_costs) - 1) |->
        <<date_strings[k + 1]>>
            \o [j \in 1..Len(categories) |->
                   FormatPercent(PercentChange(all_costs[k][categories[j]],
                                               all_costs[k + 1][categories[j]]))]]

\* generate_data_for_subscription, from the return of get_cost_data_range on
GenerateData(response_data, subscription_name, n) ==
    IF ~Truthy(response_data) THEN NoneNone
    ELSE LET all_costs == AllCosts(response_data, n)
             date_strings == DateStrings(n)
             categories == CategoriesFor(subscription_name, all_costs)
         IN  [cost_table |-> CostTable(all_costs, date_strings, categories),
              percent_table |-> PercentTable(all_costs, date_strings, categories),
              headers |-> <<"Date">> \o categories,
              date_strings |-> date_strings]

GenerateDataRaises(response_data, n) ==
    IF ~Truthy(response_data) THEN "none" ELSE DaysRaise(response_data, n)

-----------------------------------------------------------------------------
(* generate_table_for_subscription (console) *)

\* all_costs of the console's own "Process each day" loop
ConsoleAllCosts(response_data, n) ==
    LET daily_data == ParseRangeResponse(response_data)
    IN  [k \in 1..n |-> ProcessCostData(DailyGet(daily_data, DateKey(WindowDate(n, k))))]

\* the console's percentage loop: row i is labelled
\* (datetime.now() - timedelta(days=len(all_costs)-i)).strftime('%m/%d')
ConsolePercentTable(all_costs) ==
    [k \in 1..(Len(all_costs) - 1) |->
        <<DateStr(DaysAgo(Len(all_costs) - k))>>
            \o [j \in 1..Len(AllCategories) |->
                   FormatPercent(PercentChange(all_costs[k][AllCategories[j]],
                                               all_costs[k + 1][AllCategories[j]]))]]

\* what generate_table_for_subscription prints: nothing after "Failed to fetch", else
\* the cost table and the percentage table, always with the four categories
GenerateTable(response_data, n) ==
    IF ~Truthy(response_data) THEN None
    ELSE LET all_costs == ConsoleAllCosts(response_data, n)
         IN  [cost_table |-> CostTable(all_costs, DateStrings(n), AllCategories),
              percent_table |-> ConsolePercentTable(all_costs),
              headers |-> <<"Date">> \o AllCategories]

GenerateTableRaises(response_data, n) ==
    IF ~Truthy(response_data) THEN "none" ELSE DaysRaise(response_data, n)

-----------------------------------------------------------------------------
(* Responses of the range query as the API lays them out: the aggregation,  *)
(* the date, then the two grouping dimensions and the currency.             *)

StdColumns ==
    <<[name |-> "Cost", type |-> "Number"],
      [name |-> "UsageDate", type |-> "Number"],
      [name |-> "ResourceType", type |-> "String"],
      [name |-> "ChargeType", type |-> "String"],
      [name |-> "Currency", type |-> "String"]>>

ChargeUsage == <<"U", "s", "a", "g", "e">>
CurrencyUSD == <<"U", "S", "D">>

StdRow(cost, date_key, resource_type) ==
    <<Num(cost), Num(date_key), Str(resource_type), Str(ChargeUsage), Str(CurrencyUSD)>>

\* what one day of a sample response holds: Databricks rows (none, a charge, a refund)
\* and virtual machine rows (none, one, two)
DatabricksOptions == {<<>>, <<800>>, <<-3>>}
VMOptions == {<<>>, <<160>>, <<160, 1>>}

DayRows(date_key, db, vm) ==
    [i \in 1..Len(db) |-> StdRow(db[i], date_key, RtDatabricks)]
        \o [i \in 1..Len(vm) |-> StdRow(vm[i], date_key, RtVM)]

\* the sample responses hold rows of the three most recent days, newest first
ReportBodies ==
    {[columns |-> StdColumns,
      rows |-> DayRows(DateKey(DaysAgo(1)), d1, v1) \o DayRows(DateKey(DaysAgo(2)), d2, v2)
                  \o DayRows(DateKey(DaysAgo(3)), d3, v3)] :
        d1 \in DatabricksOptions, v1 \in VMOptions,
        d2 \in DatabricksOptions, v2 \in VMOptions,
        d3 \in DatabricksOptions, v3 \in {<<>>, <<160>>}}

\* for idx, sub_name in enumerate(['main', 'prod', 'dev', 'test'])
SubOrder == <<"main", "prod", "dev", "test">>
SubNames == {SubOrder[i] : i \in 1..Len(SubOrder)}

RpInit ==
    /\ rp_sub \in SubNames
    /\ rp_days \in 1..MaxDays
    /\ rp_resp \in ReportBodies \cup {EmptyDict, [columns |-> StdColumns]}
    /\ rp_data = Unset
    /\ rp_console = Unset
    /\ RunIdle /\ CatIdle /\ PsIdle /\ RgIdle /\ GcIdle

\* generate_table_for_subscription, once response_data is there
CallGenerateTable ==
    /\ rp_console = Unset
    /\ rp_console' = IF GenerateTableRaises(rp_resp, rp_days) = "none"
                     THEN GenerateTable(rp_resp, rp_days)
                     ELSE [raised |-> GenerateTableRaises(rp_resp, rp_days)]
    /\ UNCHANGED <<rp_sub, rp_days, rp_resp, rp_data, runVars, catVars, psVars, rgVars, gcVars>>

\* generate_data_for_subscription, once response_data is there
CallGenerateData ==
    /\ rp_console # Unset
    /\ rp_data = Unset
    /\ rp_data' = IF GenerateDataRaises(rp_resp, rp_days) = "none"
                  THEN GenerateData(rp_resp, rp_sub, rp_days)
                  ELSE [raised |-> GenerateDataRaises(rp_resp, rp_days)]
    /\ UNCHANGED <<rp_sub, rp_days, rp_resp, rp_console, runVars, catVars, psVars, rgVars, gcVars>>

RpNext == CallGenerateTable \/ CallGenerateData

SpecReport == RpInit /\ [][RpNext]_vars

-----------------------------------------------------------------------------
(* C5: for a window of N days the percent-change table has N-1 rows, one    *)
(* for each of days 2..N in ascending date order and none for day 1; the    *)
(* entry of day k for a category is delta(cost of day k-1, cost of day k),  *)
(* with delta(0, 0) = 0, delta(0, c) = +100 for c # 0 and                   *)
(* delta(p, c) = ((c - p) / p) * 100 otherwise, each category on its own.   *)
(* It is stated of the document's table and of the console's.               *)

\* the number an entry prints, in hundredths: sign, digits, ".", two digits, "%"
EntryHundredths(entry) ==
    LET n == Len(entry)
        magnitude == ParseInt(SubSeq(entry, 2, n - 4)) * 100 + ParseInt(SubSeq(entry, n - 2, n - 1))
    IN  IF entry[1] = "-" THEN -magnitude ELSE magnitude

\* the entry prints delta(p, c) to two decimals: the hundredth nearest to it
IsDelta(entry, p, c) ==
    /\ Len(entry) >= 6
    /\ entry[1] \in {"+", "-"} /\ entry[Len(entry) - 3] = "." /\ entry[Len(entry)] = "%"
    /\ IF p = 0 /\ c = 0 THEN EntryHundredths(entry) = 0
       ELSE IF p = 0 THEN EntryHundredths(entry) = 10000
       ELSE 2 * Abs(EntryHundredths(entry) * p - 10000 * (c - p)) <= Abs(p)

\* the table `t` with categories `cats` is the delta table of the breakdowns `all`
IsDeltaTable(t, cats, all, n) ==
    /\ Len(t) = n - 1
    /\ \A k \in 1..(n - 1) :
          /\ Len(t[k]) = 1 + Len(cats)
          /\ t[k][1] = DateStr(DaysAgo(n - k))
          /\ \A j \in 1..Len(cats) :
                IsDelta(t[k][j + 1], all[k][cats[j]], all[k + 1][cats[j]])

\* C5: the percent-change tables (document and console) of a window of N days have N-1
\* rows, for days 2..N in order, each entry the delta of the category's cost of that day
\* against the day before, printed to two decimals.
C5_PercentTables ==
    /\ (rp_data # Unset /\ Truthy(rp_resp)) =>
          \A all \in {AllCosts(rp_resp, rp_days)} :
              IsDeltaTable(rp_data.percent_table, Tail(rp_data.headers), all, rp_days)
    /\ (rp_console # Unset /\ Truthy(rp_resp)) =>
          \A all \in {ConsoleAllCosts(rp_resp, rp_days)} :
              IsDeltaTable(rp_console.percent_table, AllCategories, all, rp_days)

\* a three-day window whose virtual machine cost goes 0 -> 161 -> 0 and whose
\* Databricks cost goes -3 -> 800 -> -3, both tables built: the delta -100.375 of
\* 800 -> -3 is printed from the float below it
C5_Witness ==
    /\ rp_data # Unset /\ rp_console # Unset
    /\ Truthy(rp_resp)
    /\ rp_days = 3
    /\ Len(rp_data.percent_table) = 2 /\ Len(rp_console.percent_table) = 2
    /\ \E all \in {AllCosts(rp_resp, rp_days)} :
           /\ all[1]["Virtual Machine"] = 0 /\ all[2]["Virtual Machine"] = 161
           /\ all[3]["Virtual Machine"] = 0
           /\ all[1]["Databricks"] = -3 /\ all[2]["Databricks"] = 800
           /\ all[3]["Databricks"] = -3
    /\ rp_console.percent_table[1][3] = <<"+", "1", "0", "0", ".", "0", "0", "%">>
    /\ rp_console.percent_table[2][3] = <<"-", "1", "0", "0", ".", "0", "0", "%">>
    /\ rp_data.percent_table[1][2] = <<"-", "2", "6", "7", "6", "6", ".", "6", "7", "%">>
    /\ rp_data.percent_table[2][2] = <<"-", "1", "0", "0", ".", "3", "7", "%">>

-----------------------------------------------------------------------------
(* C6: in the document data of "main" the categories exclude Databricks     *)
(* exactly when every day of the window has Databricks cost zero; a nonzero *)
(* cost of either sign on any day keeps all four.  prod, dev and test       *)
(* always have all four.                                                    *)

\* C6: main's headers lack Databricks exactly when its Databricks cost is zero on every
\* day of the window; prod, dev and test always have all four categories.
C6_DatabricksExclusion ==
    (rp_data # Unset /\ Truthy(rp_resp)) =>
        \A all \in {AllCosts(rp_resp, rp_days)} :
            LET all_zero == \A k \in 1..rp_days : all[k]["Databricks"] = 0
            IN  IF rp_sub = "main"
                THEN rp_data.headers
                        = IF all_zero
                          THEN <<"Date", "Virtual Machine", "Storage", "Others">>
                          ELSE <<"Date", "Databricks", "Virtual Machine", "Storage", "Others">>
                ELSE rp_data.headers
                        = <<"Date", "Databricks", "Virtual Machine", "Storage", "Others">>

-----------------------------------------------------------------------------
(* parse_range_response and process_cost_data under a column order *)

\* the three columns the parser looks up by name
NamedColumns == {"Cost", "UsageDate", "ResourceType"}

StdOrder == <<"Cost", "UsageDate", "ResourceType">>

ColumnOrders == {o \in [1..3 -> NamedColumns] : {o[i] : i \in 1..3} = NamedColumns}

\* the cell of column `name` of the logical row r
CellOf(r, name) ==
    CASE name = "Cost" -> Num(r.cost)
      [] name = "UsageDate" -> Num(r.date)
      [] name = "ResourceType" -> Str(r.rtype)

\* the response whose schema lists the columns in `order` and whose rows are laid out
\* accordingly; order = <<>> is a response without column names, rows in positions 0/1/2
Encode(rows, order) ==
    IF order = <<>>
    THEN [columns |-> <<>>,
          rows |-> [i \in 1..Len(rows) |-> [j \in 1..3 |-> CellOf(rows[i], StdOrder[j])]]]
    ELSE [columns |-> [j \in 1..3 |-> [name |-> order[j], type |-> "x"]],
          rows |-> [i \in 1..Len(rows) |-> [j \in 1..3 |-> CellOf(rows[i], order[j])]]]

LogicalRowPool ==
    {[cost |-> c, date |-> DateKey(DaysAgo(d)), rtype |-> rt] :
        c \in {300, 500}, d \in {1, 2}, rt \in {RtDatabricks, RtSql}}

PsInit ==
    /\ ps_rows \in SeqsUpTo(LogicalRowPool, MaxRows)
    /\ ps_order \in ColumnOrders \cup {<<>>}
    /\ ps_out = Unset
    /\ RunIdle /\ CatIdle /\ RpIdle /\ RgIdle /\ GcIdle

\* the per-date breakdowns the program computes from a response: what the "Process each
\* day" loop leaves in all_costs, or the exception that ends it
Breakdowns(response_data, n) ==
    IF DaysRaise(response_data, n) = "none"
    THEN [all_costs |-> AllCosts(response_data, n)]
    ELSE [raised |-> DaysRaise(response_data, n)]

CallParseAndProcess ==
    /\ ps_out = Unset
    /\ ps_out' = Breakdowns(Encode(ps_rows, ps_order), MaxDays)
    /\ UNCHANGED <<ps_rows, ps_order, runVars, catVars, rpVars, rgVars, gcVars>>

PsNext == CallParseAndProcess

SpecParse == PsInit /\ [][PsNext]_vars

-----------------------------------------------------------------------------
(* C10: when the schema names Cost, UsageDate and ResourceType, the values  *)
(* used are those at the named positions, so the per-date breakdowns are    *)
(* the same for every consistent permutation of the columns (and for a      *)
(* response without names laid out in positions 0/1/2).                     *)

\* C10: the per-date breakdowns computed from a response are those computed from the
\* same rows laid out in the order Cost, UsageDate, ResourceType.
C10_ColumnOrderIrrelevant ==
    ps_out # Unset => ps_out = Breakdowns(Encode(ps_rows, StdOrder), MaxDays)


-----------------------------------------------------------------------------
(* HTTP *)

RangeDefaultRetryAfter == 60
InterSubscriptionDelay == 2
max_retries == 3

\* response.headers of a 429: without Retry-After, or with a number of seconds
NoHeaders == [k \in {} |-> <<>>]
RetryAfter(chars) == [k \in {"Retry-After"} |-> chars]
RateLimitHeaders == {NoHeaders, RetryAfter(<<"5">>), RetryAfter(<<"1", "2", "0">>)}

\* int(response.headers.get('Retry-After', default))
RetryAfterSeconds(headers, default) ==
    IF "Retry-After" \in DOMAIN headers THEN ParseInt(headers["Retry-After"]) ELSE default

\* what requests.post can end with, other than a 429: an exception (timeout, network
\* error), an error status, or a 200 with a JSON body
Raised(kind) == [raises |-> kind]
Status(code, json) == [status_code |-> code, json |-> json]
RateLimited(headers) == [status_code |-> 429, headers |-> headers]

IsRaised(resp) == "raises" \in DOMAIN resp
Is429(resp) == ~IsRaised(resp) /\ resp.status_code = 429

TransportFailures == {Raised("Timeout"), Raised("ConnectionError")}
ErrorStatuses == {Status(500, None), Status(403, None)}

\* response.raise_for_status() raises on 4xx and 5xx
StatusRaises(resp) == resp.status_code >= 400

\* the return of get_cost_data_range on a response that is not a 429: None through the
\* except branch (post raised, raise_for_status raised, no 'properties' in the JSON),
\* else response.json()['properties']
RangeReturn(resp) ==
    IF IsRaised(resp) THEN None
    ELSE IF StatusRaises(resp) THEN None
    ELSE IF "properties" \notin DOMAIN resp.json THEN None
    ELSE resp.json.properties

\* retry_after = int(response.headers.get('Retry-After', 60)) of the range fetch
RangeSleepIgnoringHeader(resp) == RangeDefaultRetryAfter

RangeSleep(resp) == RetryAfterSeconds(resp.headers, RangeDefaultRetryAfter)

-----------------------------------------------------------------------------
(* get_cost_data_range alone.  rg_log is what the call has done so far: its *)
(* requests, the responses, its sleeps.  A state is the call waiting for    *)
(* the response to its last request, or returned.                           *)

Request(subscription_id, from, to) ==
    [ev |-> "request", subscription_id |-> subscription_id, from |-> from, to |-> to]
Response(resp) == [ev |-> "response", resp |-> resp]
Sleep(secs) == [ev |-> "sleep", secs |-> secs]

\* the request of get_cost_data_range for the window of n days ending yesterday
RangeRequest(sub_name, n) ==
    Request(sub_name, DateKey(DaysAgo(1 + (n - 1))), DateKey(DaysAgo(1)))

Count(log, ev) == Cardinality({i \in 1..Len(log) : log[i].ev = ev})

Count429(log) ==
    Cardinality({i \in 1..Len(log) : log[i].ev = "response" /\ Is429(log[i].resp)})

SampleProperties ==
    {EmptyDict,
     [columns |-> StdColumns],
     [columns |-> StdColumns,
      rows |-> <<StdRow(500, DateKey(DaysAgo(1)), RtDatabricks),
                 StdRow(300, DateKey(DaysAgo(1)), RtVM),
                 StdRow(100, DateKey(DaysAgo(2)), RtStorage)>>]}

\* 200 responses: a JSON body with properties, and one without
OkResponses ==
    {Status(200, [properties |-> p]) : p \in SampleProperties}
        \cup {Status(200, [error |-> "x"])}

FinalResponses == TransportFailures \cup ErrorStatuses \cup OkResponses

RgInit ==
    /\ \E s \in SubNames, n \in 1..MaxDays : rg_log = <<RangeRequest(s, n)>>
    /\ rg_ret = Unset
    /\ RunIdle /\ CatIdle /\ RpIdle /\ PsIdle /\ GcIdle

\* the request a recursive call issues: the arguments are passed on unchanged
Reissue(log) == log[1]

\* `if response.status_code == 429`: sleep, then the recursive call and its request
RangeRateLimited ==
    /\ rg_ret = Unset
    /\ Count429(rg_log) < MaxRateLimits
    /\ \E h \in RateLimitHeaders :
          rg_log' = rg_log \o <<Response(RateLimited(h)),
                                Sleep(RangeSleep(RateLimited(h))),
                                Reissue(rg_log)>>
    /\ UNCHANGED <<rg_ret, runVars, catVars, rpVars, psVars, gcVars>>

\* any other end of the request: the call (and every caller up the recursion) returns
RangeReturns ==
    /\ rg_ret = Unset
    /\ \E resp \in FinalResponses :
          /\ rg_log' = Append(rg_log, Response(resp))
          /\ rg_ret' = RangeReturn(resp)
    /\ UNCHANGED <<runVars, catVars, rpVars, psVars, gcVars>>

RgNext == RangeRateLimited \/ RangeReturns

SpecRange == RgInit /\ [][RgNext]_vars

-----------------------------------------------------------------------------
(* C3: every 429 of the range fetch is followed by a sleep of the           *)
(* Retry-After seconds (60 without the header) and then by the same request *)
(* again, however many 429s came before; the fetch returns at the first     *)
(* response that is not a 429, so k 429s and a 200 make k+1 requests and k  *)
(* sleeps.                                                                  *)

\* C3: each 429 is followed by sleep(Retry-After or 60) and the same request; the call
\* returns at the first other response, after k 429s with k+1 requests and k sleeps.
C3_RangeRetry ==
    /\ \A i \in 1..Len(rg_log) :
          (rg_log[i].ev = "response" /\ Is429(rg_log[i].resp)) =>
              /\ i + 2 <= Len(rg_log)
              /\ rg_log[i + 1] = Sleep(IF "Retry-After" \in DOMAIN rg_log[i].resp.headers
                                       THEN ParseInt(rg_log[i].resp.headers["Retry-After"])
                                       ELSE 60)
              /\ rg_log[i + 2] = rg_log[1]
              /\ rg_log[i + 2].ev = "request"
    /\ \A i \in 1..Len(rg_log) :
          (rg_log[i].ev = "response" /\ ~Is429(rg_log[i].resp)) =>
              i = Len(rg_log) /\ rg_ret # Unset
    /\ rg_ret = Unset => rg_log[Len(rg_log)].ev = "request"
    /\ rg_ret # Unset =>
          /\ Count(rg_log, "request") = Count429(rg_log) + 1
          /\ Count(rg_log, "sleep") = Count429(rg_log)
          /\ rg_log[Len(rg_log)].ev = "response"
          /\ (~IsRaised(rg_log[Len(rg_log)].resp)
                /\ rg_log[Len(rg_log)].resp.status_code = 200
                /\ "properties" \in DOMAIN rg_log[Len(rg_log)].resp.json)
                  => rg_ret = rg_log[Len(rg_log)].resp.json.properties

\* a 429 with Retry-After: 5, then a 429 without the header, then a 200 that is returned
C3_Witness ==
    /\ rg_ret # Unset /\ rg_ret # None
    /\ Len(rg_log) = 8
    /\ rg_log[2] = Response(RateLimited(RetryAfter(<<"5">>)))
    /\ rg_log[3] = Sleep(5)
    /\ rg_log[5] = Response(RateLimited(NoHeaders))
    /\ rg_log[6] = Sleep(60)
    /\ rg_log[8].resp.status_code = 200

-----------------------------------------------------------------------------
(* get_cost_data alone (the single-day fetch).  gc_retry_count is the       *)
(* retry_count of the innermost call, gc_log what the calls have done.      *)

\* a Python list
List(items) == [list |-> items]

\* the request of get_cost_data: from and to are the same day
DayRequest(sub_name, d) == Request(sub_name, DateKey(DaysAgo(d)), DateKey(DaysAgo(d)))

\* `if retry_count < max_retries`
DayMayRetryInclusive(retry_count) == retry_count <= max_retries

DayMayRetry(retry_count) == retry_count < max_retries

\* retry_after = int(response.headers.get('Retry-After', 2 ** retry_count))
DaySleep(resp, retry_count) == RetryAfterSeconds(resp.headers, Pow2(retry_count))

\* the return on a response that is not a 429: [] through the except branch, else
\* response.json()['properties']['rows']
DayReturn(resp) ==
    IF IsRaised(resp) THEN List(<<>>)
    ELSE IF StatusRaises(resp) THEN List(<<>>)
    ELSE IF "properties" \notin DOMAIN resp.json THEN List(<<>>)
    ELSE IF "rows" \notin DOMAIN resp.json.properties THEN List(<<>>)
    ELSE List(resp.json.properties.rows)

GcInit ==
    /\ \E s \in SubNames, d \in 1..MaxDays : gc_log = <<DayRequest(s, d)>>
    /\ gc_retry_count = 0
    /\ gc_ret = Unset
    /\ RunIdle /\ CatIdle /\ RpIdle /\ PsIdle /\ RgIdle

\* `if response.status_code == 429` with retries left: sleep, then the recursive call
DayRateLimitedRetry ==
    /\ gc_ret = Unset
    /\ DayMayRetry(gc_retry_count)
    /\ \E h \in RateLimitHeaders :
          gc_log' = gc_log \o <<Response(RateLimited(h)),
                                Sleep(DaySleep(RateLimited(h), gc_retry_count)),
                                Reissue(gc_log)>>
    /\ gc_retry_count' = gc_retry_count + 1
    /\ UNCHANGED <<gc_ret, runVars, catVars, rpVars, psVars, rgVars>>

\* a 429 with no retry left: "Max retries reached", return []
DayRateLimitedGiveUp ==
    /\ gc_ret = Unset
    /\ ~DayMayRetry(gc_retry_count)
    /\ \E h \in RateLimitHeaders : gc_log' = Append(gc_log, Response(RateLimited(h)))
    /\ gc_ret' = List(<<>>)
    /\ UNCHANGED <<gc_retry_count, runVars, catVars, rpVars, psVars, rgVars>>

DayReturns ==
    /\ gc_ret = Unset
    /\ \E resp \in FinalResponses :
          /\ gc_log' = Append(gc_log, Response(resp))
          /\ gc_ret' = DayReturn(resp)
    /\ UNCHANGED <<gc_retry_count, runVars, catVars, rpVars, psVars, rgVars>>

GcNext == DayRateLimitedRetry \/ DayRateLimitedGiveUp \/ DayReturns

SpecDay == GcInit /\ [][GcNext]_vars

-----------------------------------------------------------------------------
(* C8, with the code's count: get_cost_data issues at most 4 requests (the   *)
(* first and max_retries = 3 retries) and has then returned; it returns the *)
(* empty list when every one was rate limited; after the 429 answering the  *)
(* request of retry_count = a without Retry-After it waits 2^a seconds.     *)

\* the number of 429s among the first i events
Earlier429(log, i) == Count429(SubSeq(log, 1, i))

\* C8 (with the code's count): at most 4 requests per call; [] when all were rate limited; the wait
\* after the 429 of retry_count = a without Retry-After is 2^a seconds.
C8_DayFetchBounded ==
    /\ Count(gc_log, "request") <= 4
    /\ (Count(gc_log, "request") = 4 /\ Count(gc_log, "response") = 4) => gc_ret # Unset
    /\ Count(gc_log, "response") = Count429(gc_log) /\ Count(gc_log, "response") = Count(gc_log, "request")
          => gc_ret = List(<<>>) /\ Count(gc_log, "request") = 4
    /\ \A i \in 1..Len(gc_log) :
          (/\ gc_log[i].ev = "response" /\ Is429(gc_log[i].resp)
           /\ "Retry-After" \notin DOMAIN gc_log[i].resp.headers
           /\ i < Len(gc_log))
              => /\ gc_log[i + 1] = Sleep(Pow2(Earlier429(gc_log, i - 1)))
                 /\ gc_log[i + 2] = gc_log[1]

\* four requests, each answered 429 without Retry-After: waits of 1, 2 and 4 seconds,
\* then the empty list
C8_Witness ==
    /\ gc_ret = List(<<>>)
    /\ Count(gc_log, "request") = 4 /\ Count429(gc_log) = 4
    /\ gc_log[3] = Sleep(1) /\ gc_log[6] = Sleep(2) /\ gc_log[9] = Sleep(4)

\* C8 as claimed: at most 3 request attempts in total
C8_AtMostThreeAttempts == Count(gc_log, "request") <= 3

-----------------------------------------------------------------------------
(* create_word_document *)

\* for sub_name in ['prod', 'dev', 'test', 'main']
DocOrder == <<"prod", "dev", "test", "main">>

\* sub_name.capitalize()
Capitalize(name) ==
    CASE name = "main" -> "Main"
      [] name = "prod" -> "Prod"
      [] name = "dev" -> "Dev"
      [] name = "test" -> "Test"

\* date.strftime('%A'); 1 January 2024 was a Monday
WeekdayNames == <<"Monday", "Tuesday", "Wednesday", "Thursday", "Friday", "Saturday", "Sunday">>
Weekday(d) == WeekdayNames[((d.yday - 1) % 7) + 1]

\* date_list: start_date + timedelta(days=i) for i in range(num_days)
GreetingDates(n) ==
    [i \in 1..n |-> [weekday |-> Weekday(WindowDate(n, i)), date |-> DateStr(WindowDate(n, i))]]

\* `if sub_name in all_data and all_data[sub_name]`
HasEntry(data, name) == name \in DOMAIN data /\ Truthy(data[name])

\* data['cost_table'] on the tuple (None, None): "tuple indices must be integers"
CreateDocumentRaises(data) ==
    IF \E i \in 1..Len(DocOrder) :
           HasEntry(data, DocOrder[i]) /\ "cost_table" \notin DOMAIN data[DocOrder[i]]
    THEN "TypeError"
    ELSE "none"

Section(data, name) ==
    [sub |-> name,
     heading |-> <<Capitalize(name), "Environment">>,
     headers |-> data[name].headers,
     cost_table |-> data[name].cost_table,
     percent_caption |-> <<"Percentage difference for", name>>,
     percent_table |-> data[name].percent_table]

\* the document that doc.save(filename) writes, when nothing raised before it
Document(data, n) ==
    LET present == SelectSeq(DocOrder, LAMBDA name : HasEntry(data, name))
    IN  [title |-> "Azure Cost Summary Report",
         greeting |-> GreetingDates(n),
         sections |-> [i \in 1..Len(present) |-> Section(data, present[i])],
         closing |-> "\nThank you."]

-----------------------------------------------------------------------------
(* The run: __main__.  A state with pc = "console_fetch" or "data_fetch" is *)
(* the program inside get_cost_data_range, waiting for the response to the  *)
(* request it has issued.  timeline lists the requests (consecutive ones of *)
(* one subscription as one entry) and the time.sleep(2) of the main loop.   *)

\* how a range fetch ended, by the branch of the program it takes
Classify(resp) ==
    IF RangeReturn(resp) = None THEN "failed"
    ELSE IF ~Truthy(RangeReturn(resp)) THEN "empty"
    ELSE IF "rows" \notin DOMAIN RangeReturn(resp) THEN "no_rows"
    ELSE "rows"

\* what the fetches of a run end with: a timeout or a network error, an error status, a
\* 200 without properties, a 200 whose properties lack rows, a 200 with rows
RunResponses ==
    TransportFailures \cup ErrorStatuses
        \cup {resp \in OkResponses : RangeReturn(resp) = None \/ Truthy(RangeReturn(resp))}

RequestOf(name) == [ev |-> "request", sub |-> name]

\* a request for `name` joins the timeline
WithRequest(tl, name) ==
    IF tl # <<>> /\ tl[Len(tl)] = RequestOf(name) THEN tl ELSE Append(tl, RequestOf(name))

\* all_data[sub_name] = data
DictSet(d, key, value) == [k \in DOMAIN d \cup {key} |-> IF k = key THEN value ELSE d[k]]

\* `if idx < 3`
DelayFollowsEvery(i) == i < Len(SubOrder)

DelayFollows(i) == i < 3

\* `if data: all_data[sub_name] = data`
StoreData(data_map, name, data) ==
    IF Truthy(data) THEN DictSet(data_map, name, data) ELSE data_map

\* the prompt loop leaves num_days >= 1; the loop starts with 'main' and the console
\* fetch issues its request
Init ==
    /\ pc = "console_fetch"
    /\ idx = 0
    /\ num_days \in 1..MaxRunDays
    /\ retries = 0
    /\ timeline = <<RequestOf(SubOrder[1])>>
    /\ outcome = [s \in SubNames |-> [console |-> "pending", data |-> "pending"]]
    /\ console = [s \in SubNames |-> Unset]
    /\ all_data = EmptyDict
    /\ doc = None
    /\ CatIdle /\ RpIdle /\ PsIdle /\ RgIdle /\ GcIdle

\* a 429 to either fetch: sleep(retry_after), then the same request again
RunRateLimited ==
    /\ pc \in {"console_fetch", "data_fetch"}
    /\ retries < MaxRateLimits
    /\ \E h \in RateLimitHeaders : RangeSleep(RateLimited(h)) >= 0
    /\ retries' = retries + 1
    /\ timeline' = WithRequest(timeline, SubOrder[idx + 1])
    /\ UNCHANGED <<pc, idx, num_days, outcome, console, all_data, doc,
                   catVars, rpVars, psVars, rgVars, gcVars>>

\* the console's fetch returns: generate_table_for_subscription prints or gives up, then
\* generate_data_for_subscription issues its own request
ConsoleFetchReturns ==
    /\ pc = "console_fetch"
    /\ \E resp \in RunResponses :
          LET name == SubOrder[idx + 1]
              response_data == RangeReturn(resp)
              raises == GenerateTableRaises(response_data, num_days)
          IN  /\ outcome' = [outcome EXCEPT ![name].console = Classify(resp)]
              /\ IF raises # "none"
                 THEN /\ pc' = "raised"
                      /\ UNCHANGED <<console, timeline>>
                 ELSE /\ console' = [console EXCEPT ![name] = GenerateTable(response_data, num_days)]
                      /\ pc' = "data_fetch"
                      /\ timeline' = WithRequest(timeline, name)
    /\ retries' = 0
    /\ UNCHANGED <<idx, num_days, all_data, doc, catVars, rpVars, psVars, rgVars, gcVars>>

\* the data fetch returns: the rest of generate_data_for_subscription, `if data:`, the
\* delay `if idx < 3`, then the next subscription's console request or the end of the loop
DataFetchReturns ==
    /\ pc = "data_fetch"
    /\ \E resp \in RunResponses :
          LET name == SubOrder[idx + 1]
              response_data == RangeReturn(resp)
              raises == GenerateDataRaises(response_data, num_days)
          IN  /\ outcome' = [outcome EXCEPT ![name].data = Classify(resp)]
              /\ IF raises # "none"
                 THEN /\ pc' = "raised"
                      /\ UNCHANGED <<idx, all_data, timeline>>
                 ELSE /\ all_data' = StoreData(all_data, name,
                                               GenerateData(response_data, name, num_days))
                      /\ LET slept == IF DelayFollows(idx)
                                       THEN Append(timeline, Sleep(InterSubscriptionDelay))
                                       ELSE timeline
                         IN  IF idx + 1 < Len(SubOrder)
                             THEN /\ timeline' = WithRequest(slept, SubOrder[idx + 2])
                                  /\ idx' = idx + 1
                                  /\ pc' = "console_fetch"
                             ELSE /\ timeline' = slept
                                  /\ pc' = "create_document"
                                  /\ idx' = idx
    /\ retries' = 0
    /\ UNCHANGED <<num_days, console, doc, catVars, rpVars, psVars, rgVars, gcVars>>

\* create_word_document(all_data, num_days)
CreateWordDocument ==
    /\ pc = "create_document"
    /\ IF CreateDocumentRaises(all_data) # "none"
       THEN pc' = "raised" /\ doc' = doc
       ELSE pc' = "done" /\ doc' = Document(all_data, num_days)
    /\ UNCHANGED <<idx, num_days, retries, timeline, outcome, console, all_data,
                   catVars, rpVars, psVars, rgVars, gcVars>>

Next == RunRateLimited \/ ConsoleFetchReturns \/ DataFetchReturns \/ CreateWordDocument

Spec == Init /\ [][Next]_vars

-----------------------------------------------------------------------------
(* Claims about the run *)

Ended == pc \in {"done", "raised"}

\* the subscription's console tables were printed
Printed(name) == console[name] # Unset /\ console[name] # None

\* the saved document has a section for the subscription
HasSection(name) ==
    /\ doc # None
    /\ \E i \in 1..Len(doc.sections) : doc.sections[i].sub = name

FailedBoth(name) == outcome[name].console = "failed" /\ outcome[name].data = "failed"
SucceededBoth(name) == outcome[name].console = "rows" /\ outcome[name].data = "rows"

\* C1: when the fetches of exactly one subscription fail (not by rate limiting) and
\* those of the other three succeed, the run does not abort: the document is saved, it
\* has sections for exactly the other three and none for the failed one.
C1_OneFailureOthersReported ==
    \A failed \in SubNames :
        (/\ Ended
         /\ FailedBoth(failed)
         /\ \A other \in SubNames \ {failed} : SucceededBoth(other))
            => /\ pc = "done"
               /\ doc # None
               /\ \A name \in SubNames : HasSection(name) <=> name # failed

\* C2: console and document agree on every subscription: one whose fetch failed is in
\* neither, and a subscription has a section exactly when its console tables were printed.
C2_ConsoleAndDocumentAgree ==
    Ended =>
        \A name \in SubNames :
            /\ HasSection(name) <=> Printed(name)
            /\ (outcome[name].console = "failed" \/ outcome[name].data = "failed")
                  => ~HasSection(name) /\ ~Printed(name)

\* C9: a fetch that succeeds with properties lacking a rows field makes the subscription
\* skipped: no tables for it on the console, no entry for it in the document data.
C9_NoRowsIsSkipped ==
    \A name \in SubNames :
        /\ outcome[name].console = "no_rows" => ~Printed(name)
        /\ outcome[name].data = "no_rows" => ~HasEntry(all_data, name)

FullTimeline ==
    <<RequestOf("main"), Sleep(2), RequestOf("prod"), Sleep(2),
      RequestOf("dev"), Sleep(2), RequestOf("test")>>

\* C7: the subscriptions are processed one at a time in the order main, prod, dev, test:
\* the requests of one are all issued before those of the next, a 2-second sleep lies
\* between consecutive subscriptions (three per run) and none follows the last, whatever
\* the fetches returned.
C7_SequentialWithDelays ==
    /\ Len(timeline) <= Len(FullTimeline)
    /\ timeline = SubSeq(FullTimeline, 1, Len(timeline))
    /\ pc \in {"console_fetch", "data_fetch"} => timeline[Len(timeline)] = RequestOf(SubOrder[idx + 1])
    /\ pc \in {"create_document", "done", "raised"} => timeline = FullTimeline

\* the loop has ended after a run in which both fetches of prod failed and were retried
C7_Witness ==
    /\ pc = "create_document"
    /\ FailedBoth("prod")
    /\ SucceededBoth("main") /\ SucceededBoth("dev") /\ outcome["test"].data = "no_rows"
    /\ timeline = FullTimeline

====
